---- MODULE Spec2Model ----
(***************************************************************************)
(* A model of src/src/LineGraphVisualization.tsx: the date axis            *)
(* (generateDateRange), the date normaliser (formatDate), the trailing     *)
(* moving average (calculateSimpleMovingAverage), the aggregation done in  *)
(* the fetch's .then callback, and the component's state (data, error,     *)
(* topN, isPlaying, currentIndex, selectedUCs) with its handlers.          *)
(*                                                                         *)
(* Representation.                                                         *)
(*  - A JavaScript string is a sequence of one-character strings, so that  *)
(*    split, padStart, template concatenation and date parsing are         *)
(*    computed character by character.                                     *)
(*  - A JavaScript number is an exact rational [n, d] in lowest terms      *)
(*    (d > 0); the only division of the program is sum / slice.length.     *)
(*  - A time value is a number of hours; day 0 is 2024-01-01 (UTC).  The   *)
(*    offsets of the modelled time zones are whole hours.                  *)
(***************************************************************************)
EXTENDS Integers, Sequences, FiniteSets, Bags, TLC

VARIABLES
    serverDoc,     \* the document served at /data.json (DataItem[])
    today,         \* new Date().toISOString().split('T')[0] at callback time
    tz,            \* the time zone of the runtime (what local time means)
    data,          \* useState<ProcessedData | null>: <<>> is null, <<d>> is d
    error,         \* useState<string | null>: <<>> is null, <<m>> is m
    topN,          \* useState<number>(10)
    isPlaying,     \* useState<boolean>(false)
    currentIndex,  \* useState<number>(0)
    selectedUCs,   \* useState<string[]>([])
    inflight,      \* bag of pending fetches, each the topN its closure holds
    clicks,        \* number of user actions taken so far
    locals,        \* the locals of the last run of the .then callback
    args,          \* the arguments of a call of a pure function
    result         \* what that call returned: <<>> before the call

vars == <<serverDoc, today, tz, data, error, topN, isPlaying, currentIndex,
          selectedUCs, inflight, clicks, locals, args, result>>

---------------------------------------------------------------------------
(* Strings *)

S_dash == <<"-">>
S_slash == <<"/">>
S_zero == <<"0">>
S_undefined == <<"u", "n", "d", "e", "f", "i", "n", "e", "d">>
S_date == <<"d", "a", "t", "e">>

Digits == <<"0", "1", "2", "3", "4", "5", "6", "7", "8", "9">>

IsDigit(c) == \E i \in 1..10 : Digits[i] = c

DigitVal(c) == (CHOOSE i \in 1..10 : Digits[i] = c) - 1

\* String.prototype.split(sep) for a one-character separator: the pieces
\* between the separators, empty pieces kept ("".split("/") is [""]).
RECURSIVE SplitFrom(_, _, _, _)
SplitFrom(s, sep, i, piece) ==
    IF i > Len(s) THEN <<piece>>
    ELSE IF s[i] = sep THEN <<piece>> \o SplitFrom(s, sep, i + 1, <<>>)
    ELSE SplitFrom(s, sep, i + 1, Append(piece, s[i]))

Split(s, sep) == SplitFrom(s, sep, 1, <<>>)

\* String.prototype.padStart(targetLength, "0"): fill on the left up to
\* targetLength; a string already that long is returned unchanged.
RECURSIVE padStart(_, _)
padStart(s, targetLength) ==
    IF Len(s) >= targetLength THEN s ELSE padStart(S_zero \o s, targetLength)

\* The decimal digits of a natural number, at least `width` of them.
RECURSIVE DigitsOf(_)
DigitsOf(n) ==
    IF n < 10 THEN <<Digits[n + 1]>>
    ELSE Append(DigitsOf(n \div 10), Digits[(n % 10) + 1])

ToDigits(n, width) == padStart(DigitsOf(n), width)

\* The number a string of digits denotes.
RECURSIVE ParseNat(_)
ParseNat(s) ==
    IF s = <<>> THEN 0
    ELSE 10 * ParseNat(SubSeq(s, 1, Len(s) - 1)) + DigitVal(s[Len(s)])

IsNumeric(s) == Len(s) > 0 /\ \A i \in 1..Len(s) : IsDigit(s[i])

---------------------------------------------------------------------------
(* Numbers *)

Abs(x) == IF x < 0 THEN -x ELSE x

RECURSIVE GCD(_, _)
GCD(a, b) == IF b = 0 THEN a ELSE GCD(b, a % b)

\* The rational n/d (d # 0) in lowest terms with a positive denominator.
Num(n, d) ==
    LET g == GCD(Abs(n), Abs(d))
        s == IF d < 0 THEN -1 ELSE 1
    IN  [n |-> (s * n) \div g, d |-> (s * d) \div g]

Zero == Num(0, 1)

NumAdd(a, b) == Num(a.n * b.d + b.n * a.d, a.d * b.d)
NumSub(a, b) == Num(a.n * b.d - b.n * a.d, a.d * b.d)
NumDiv(a, k) == Num(a.n, a.d * k)

\* Array.prototype.slice(start, end) on a 0-indexed array: a negative index
\* counts from the end, both are clamped to 0..length.
Slice(arr, start, end) ==
    LET len == Len(arr)
        clamp(k) == IF k < 0 THEN (IF len + k < 0 THEN 0 ELSE len + k)
                    ELSE (IF k > len THEN len ELSE k)
    IN  SubSeq(arr, clamp(start) + 1, clamp(end))

---------------------------------------------------------------------------
(* Calendar and the Date object *)

IsLeap(y) == (y % 4 = 0 /\ y % 100 # 0) \/ y % 400 = 0

DaysInYear(y) == IF IsLeap(y) THEN 366 ELSE 365

DaysInMonth(y, m) ==
    IF m = 2 THEN (IF IsLeap(y) THEN 29 ELSE 28)
    ELSE IF m \in {4, 6, 9, 11} THEN 30 ELSE 31

EpochYear == 2024

\* MakeDay(year, month, date) of ECMAScript, for years from EpochYear on: the
\* day number of the first of the month, plus date - 1 (date may run past
\* the end of the month).
RECURSIVE DaysBeforeYear(_)
DaysBeforeYear(y) ==
    IF y <= EpochYear THEN 0 ELSE DaysBeforeYear(y - 1) + DaysInYear(y - 1)

RECURSIVE DaysBeforeMonth(_, _)
DaysBeforeMonth(y, m) ==
    IF m <= 1 THEN 0 ELSE DaysBeforeMonth(y, m - 1) + DaysInMonth(y, m - 1)

MakeDay(y, m, dt) == DaysBeforeYear(y) + DaysBeforeMonth(y, m) + dt - 1

\* YearFromTime / MonthFromTime / DateFromTime: the civil date of a day
\* number (>= 0).
RECURSIVE CivilYear(_, _)
CivilYear(day, y) ==
    IF day < DaysInYear(y) THEN [y |-> y, rest |-> day]
    ELSE CivilYear(day - DaysInYear(y), y + 1)

RECURSIVE CivilMonth(_, _, _)
CivilMonth(rest, y, m) ==
    IF rest < DaysInMonth(y, m) THEN [m |-> m, d |-> rest + 1]
    ELSE CivilMonth(rest - DaysInMonth(y, m), y, m + 1)

Civil(day) ==
    LET yr == CivilYear(day, EpochYear)
        md == CivilMonth(yr.rest, yr.y, 1)
    IN  [y |-> yr.y, m |-> md.m, d |-> md.d]

HoursPerDay == 24

Day(t) == t \div HoursPerDay
TimeWithinDay(t) == t % HoursPerDay

\* A time zone: the offsets from UTC (hours) of its successive periods and
\* the UTC instants at which one period ends and the next begins.
ZoneUTC == [name |-> "UTC", offsets |-> <<0>>, transitions |-> <<>>]

ZoneKarachi == [name |-> "Asia/Karachi", offsets |-> <<5>>, transitions |-> <<>>]

\* EDT until 2024-11-03 06:00Z, EST until 2025-03-09 07:00Z, then EDT.
ZoneNewYork ==
    [name |-> "America/New_York", offsets |-> <<-4, -5, -4>>,
     transitions |-> <<MakeDay(2024, 11, 3) * HoursPerDay + 6,
                       MakeDay(2025, 3, 9) * HoursPerDay + 7>>]

\* AEST until 2024-10-05 16:00Z, AEDT until 2025-04-05 16:00Z, then AEST.
ZoneSydney ==
    [name |-> "Australia/Sydney", offsets |-> <<10, 11, 10>>,
     transitions |-> <<MakeDay(2024, 10, 5) * HoursPerDay + 16,
                       MakeDay(2025, 4, 5) * HoursPerDay + 16>>]

\* LocalTZA(t, true): the offset in force at the UTC instant t.
RECURSIVE OffsetAtUTC(_, _, _)
OffsetAtUTC(zone, t, k) ==
    IF k > Len(zone.transitions) \/ t < zone.transitions[k]
    THEN zone.offsets[k]
    ELSE OffsetAtUTC(zone, t, k + 1)

\* LocalTZA(tlocal, false): the offset by which the local time tlocal is read.
\* A local time that repeats, or that is skipped, at a transition is read
\* with the offset in force before the transition.
RECURSIVE OffsetAtLocal(_, _, _)
OffsetAtLocal(zone, tlocal, k) ==
    IF k > Len(zone.transitions) THEN zone.offsets[k]
    ELSE IF tlocal - zone.offsets[k] < zone.transitions[k] THEN zone.offsets[k]
    ELSE IF tlocal - zone.offsets[k + 1] < zone.transitions[k] THEN zone.offsets[k]
    ELSE OffsetAtLocal(zone, tlocal, k + 1)

LocalTime(t) == t + OffsetAtUTC(tz, t, 1)
UTC(tlocal) == tlocal - OffsetAtLocal(tz, tlocal, 1)

\* A date-only ISO string, "YYYY-MM-DD".
IsISODate(s) ==
    /\ Len(s) = 10
    /\ s[5] = "-" /\ s[8] = "-"
    /\ \A i \in {1, 2, 3, 4, 6, 7, 9, 10} : IsDigit(s[i])
    /\ ParseNat(SubSeq(s, 1, 4)) >= EpochYear
    /\ ParseNat(SubSeq(s, 6, 7)) \in 1..12
    /\ ParseNat(SubSeq(s, 9, 10)) \in
         1..DaysInMonth(ParseNat(SubSeq(s, 1, 4)), ParseNat(SubSeq(s, 6, 7)))

\* new Date("YYYY-MM-DD"): a date-only string is read as UTC midnight.
NewDate(s) ==
    MakeDay(ParseNat(SubSeq(s, 1, 4)), ParseNat(SubSeq(s, 6, 7)),
            ParseNat(SubSeq(s, 9, 10))) * HoursPerDay

\* Date.prototype.getDate(): the day of the month in local time.
getDate(t) == Civil(Day(LocalTime(t))).d

\* Date.prototype.setDate(dt): the local date's day of the month becomes dt,
\* the local time of day is kept, and the result is read back as local time.
setDate(t, dt) ==
    LET tl == LocalTime(t)
        c == Civil(Day(tl))
    IN  UTC(MakeDay(c.y, c.m, dt) * HoursPerDay + TimeWithinDay(tl))

\* Date.prototype.toISOString().split('T')[0]: the UTC date, "YYYY-MM-DD".
ISODate(t) ==
    LET c == Civil(Day(t))
    IN  ToDigits(c.y, 4) \o S_dash \o ToDigits(c.m, 2) \o S_dash \o ToDigits(c.d, 2)

\* The while loop of generateDateRange.
RECURSIVE DateLoop(_, _, _)
DateLoop(currentDate, end, dates) ==
    IF currentDate <= end
    THEN DateLoop(setDate(currentDate, getDate(currentDate) + 1), end,
                  Append(dates, ISODate(currentDate)))
    ELSE dates

generateDateRange(startDate, endDate) ==
    DateLoop(NewDate(startDate), NewDate(endDate), <<>>)

---------------------------------------------------------------------------
(* formatDate and calculateSimpleMovingAverage *)

Return(v) == [threw |-> FALSE, value |-> v, message |-> ""]
Throw(m) == [threw |-> TRUE, value |-> <<>>, message |-> m]

\* const [month, day, year] = dateString.split('/'): a missing piece is
\* undefined.  month.padStart is always callable (split returns at least one
\* piece); day.padStart throws a TypeError when day is undefined; an
\* undefined year is written "undefined" by the template.
formatDate(dateString) ==
    LET parts == Split(dateString, "/")
        month == parts[1]
    IN  IF Len(parts) < 2
        THEN Throw("Cannot read properties of undefined (reading 'padStart')")
        ELSE Return((IF Len(parts) < 3 THEN S_undefined ELSE parts[3])
                    \o S_dash \o padStart(month, 2)
                    \o S_dash \o padStart(parts[2], 2))

\* The first index (0-based) at which a full window exists: i < 13 copies.
WindowLag == 13

RECURSIVE SumFrom(_, _, _)
SumFrom(slice, i, acc) ==
    IF i > Len(slice) THEN acc ELSE SumFrom(slice, i + 1, NumAdd(acc, slice[i]))

\* slice.reduce((acc, val) => acc + val, 0)
Reduce(slice) == SumFrom(slice, 1, Zero)

\* The window taken one place too early: slice(i - 13, i).
calculateSimpleMovingAverage_early(values) ==
    [k \in 1..Len(values) |->
        LET i == k - 1
        IN  IF i < WindowLag THEN values[k]
            ELSE LET slice == Slice(values, i - WindowLag, i)
                 IN  NumDiv(Reduce(slice), Len(slice))]

calculateSimpleMovingAverage(values) ==
    [k \in 1..Len(values) |->
        LET i == k - 1
        IN  IF i < WindowLag THEN values[k]
            ELSE LET slice == Slice(values, i - WindowLag, i + 1)
                 IN  NumDiv(Reduce(slice), Len(slice))]

---------------------------------------------------------------------------
(* The aggregation of the fetch's .then callback *)

\* [...new Set(jsonData.map(item => item.name))]: the distinct names in
\* the order of their first occurrence.
RECURSIVE UniqueFrom(_, _, _)
UniqueFrom(jsonData, i, acc) ==
    IF i > Len(jsonData) THEN acc
    ELSE UniqueFrom(jsonData, i + 1,
                    IF \E j \in 1..Len(acc) : acc[j] = jsonData[i].name
                    THEN acc ELSE Append(acc, jsonData[i].name))

UniqueNames(jsonData) == UniqueFrom(jsonData, 1, <<>>)

\* `${name}-${date}`
Key(name, date) == name \o S_dash \o date

\* A Map or an object: a function from its keys; set overwrites.
EmptyMap == <<>>
\* A set that keeps the value a key already has.
MapSet_keepFirst(m, k, v) ==
    [x \in (DOMAIN m) \cup {k} |-> IF x \in DOMAIN m THEN m[x] ELSE v]

MapSet(m, k, v) == [x \in (DOMAIN m) \cup {k} |-> IF x = k THEN v ELSE m[x]]

\* dataLookup.get(key) || 0
GetOrZero(m, key) == IF key \in DOMAIN m /\ m[key] # Zero THEN m[key] ELSE Zero

\* jsonData.forEach(item => dataLookup.set(`${item.name}-${formatDate(..)}`,
\* Number(item.value))); a throw of formatDate ends the loop.
RECURSIVE BuildLookup(_, _, _)
BuildLookup(jsonData, i, m) ==
    IF i > Len(jsonData) THEN Return(m)
    ELSE LET item == jsonData[i]
             formattedDate == formatDate(item.confirmation_date)
         IN  IF formattedDate.threw THEN Throw(formattedDate.message)
             ELSE BuildLookup(jsonData, i + 1,
                              MapSet(m, Key(item.name, formattedDate.value),
                                     Num(item.value, 1)))

\* dateRange.reduce((sum, date) => sum + (dataLookup.get(key) || 0), 0)
RECURSIVE TotalFrom(_, _, _, _, _)
TotalFrom(uc, dateRange, dataLookup, i, sum) ==
    IF i > Len(dateRange) THEN sum
    ELSE TotalFrom(uc, dateRange, dataLookup, i + 1,
                   NumAdd(sum, GetOrZero(dataLookup, Key(uc, dateRange[i]))))

UcTotals(uniqueUCs, dateRange, dataLookup) ==
    [i \in 1..Len(uniqueUCs) |->
        [name |-> uniqueUCs[i],
         total |-> TotalFrom(uniqueUCs[i], dateRange, dataLookup, 1, Zero)]]

\* (a, b) => b.total - a.total
Compare(a, b) == NumSub(b.total, a.total)

\* Array.prototype.sort is stable: an element is placed after every element
\* that the comparator does not order after it.
\* An unstable placement: x goes before the elements it ties with.
RECURSIVE InsertSorted_beforeTies(_, _)
InsertSorted_beforeTies(sorted, x) ==
    IF sorted = <<>> THEN <<x>>
    ELSE IF Compare(Head(sorted), x).n < 0
         THEN <<Head(sorted)>> \o InsertSorted_beforeTies(Tail(sorted), x)
         ELSE <<x>> \o sorted

RECURSIVE InsertSorted(_, _)
InsertSorted(sorted, x) ==
    IF sorted = <<>> THEN <<x>>
    ELSE IF Compare(Head(sorted), x).n <= 0
         THEN <<Head(sorted)>> \o InsertSorted(Tail(sorted), x)
         ELSE <<x>> \o sorted

RECURSIVE SortFrom(_, _, _)
SortFrom(arr, i, sorted) ==
    IF i > Len(arr) THEN sorted
    ELSE SortFrom(arr, i + 1, InsertSorted(sorted, arr[i]))

Sort(arr) == SortFrom(arr, 1, <<>>)

\* ucTotals.sort(...).slice(0, topN).map(uc => uc.name)
TopUCs(ucTotals, n) ==
    LET top == Slice(Sort(ucTotals), 0, n)
    IN  [i \in 1..Len(top) |-> top[i].name]

\* A string held in a chart row (a number is held as it is).
Str(s) == [str |-> s]

\* const dataPoint = { date }; topUCs.forEach(uc => { dataPoint[uc] =
\* dataLookup.get(key) || 0 }): the series' cells are properties of the same
\* object as date.
RECURSIVE DataPointFrom(_, _, _, _, _)
DataPointFrom(date, topUCs, dataLookup, i, dataPoint) ==
    IF i > Len(topUCs) THEN dataPoint
    ELSE DataPointFrom(date, topUCs, dataLookup, i + 1,
                       MapSet(dataPoint, topUCs[i],
                              GetOrZero(dataLookup, Key(topUCs[i], date))))

\* No rows at all when no series is ranked.
FormattedData_noRows(dateRange, topUCs, dataLookup) ==
    IF topUCs = <<>> THEN <<>>
    ELSE [r \in 1..Len(dateRange) |->
            DataPointFrom(dateRange[r], topUCs, dataLookup, 1,
                          MapSet(EmptyMap, S_date, Str(dateRange[r])))]

FormattedData(dateRange, topUCs, dataLookup) ==
    [r \in 1..Len(dateRange) |->
        DataPointFrom(dateRange[r], topUCs, dataLookup, 1,
                      MapSet(EmptyMap, S_date, Str(dateRange[r])))]

\* topUCs.forEach(uc => { ucData = formattedData.map(point => point[uc]);
\* movingAverage = calculateSimpleMovingAverage(ucData);
\* formattedData.forEach((point, index) => point[uc] = movingAverage[index]) })
RECURSIVE SmoothFrom(_, _, _)
SmoothFrom(formattedData, topUCs, i) ==
    IF i > Len(topUCs) THEN formattedData
    ELSE LET uc == topUCs[i]
             ucData == [r \in 1..Len(formattedData) |-> formattedData[r][uc]]
             movingAverage == calculateSimpleMovingAverage(ucData)
         IN  SmoothFrom([r \in 1..Len(formattedData) |->
                            MapSet(formattedData[r], uc, movingAverage[r])],
                        topUCs, i + 1)

StartDate == <<"2", "0", "2", "4", "-", "0", "7", "-", "0", "1">>

\* The body of .then((jsonData) => ...) for the topN its closure holds: the
\* locals it computes, up to the throw when it throws.
Aggregate(jsonData, n) ==
    LET uniqueUCs == UniqueNames(jsonData)
        dateRange == generateDateRange(StartDate, today)
        lookup == BuildLookup(jsonData, 1, EmptyMap)
        dataLookup == lookup.value
        ucTotals == UcTotals(uniqueUCs, dateRange, dataLookup)
        topUCs == TopUCs(ucTotals, n)
        formattedData == FormattedData(dateRange, topUCs, dataLookup)
    IN  IF lookup.threw
        THEN [threw |-> TRUE, message |-> lookup.message,
              topN |-> n, uniqueUCs |-> uniqueUCs, dateRange |-> dateRange,
              dataLookup |-> EmptyMap, ucTotals |-> <<>>, topUCs |-> <<>>,
              formattedData |-> <<>>, chartData |-> <<>>]
        ELSE [threw |-> FALSE, message |-> "",
              topN |-> n, uniqueUCs |-> uniqueUCs, dateRange |-> dateRange,
              dataLookup |-> dataLookup, ucTotals |-> ucTotals,
              topUCs |-> topUCs, formattedData |-> formattedData,
              chartData |-> SmoothFrom(formattedData, topUCs, 1)]

---------------------------------------------------------------------------
(* The component *)

Range(f) == {f[x] : x \in DOMAIN f}

\* The number of user actions (clicks, selections) a behaviour may hold.
MaxClicks == 3

TopNOptions == {5, 10, 15, 20}
InitialTopN == 10

\* The state after the first render and its effects: the useState initial
\* values, and the fetch the data effect started with the topN of that render.
Mounted(n) ==
    /\ data = <<>>
    /\ error = <<>>
    /\ topN = n
    /\ isPlaying = FALSE
    /\ currentIndex = 0
    /\ selectedUCs = <<>>
    /\ inflight = SetToBag({n})
    /\ clicks = 0
    /\ locals = <<>>

\* The controls are rendered only past the two early returns.
Rendered == error = <<>> /\ data # <<>>

\* A fetch settles.  A response that is not ok throws in the first .then; an
\* ok response runs the aggregation with the topN of the render that started
\* the fetch; .catch stores the message of either throw.  Nothing cancels a
\* fetch, so the pending ones settle in any order.
FetchResolved ==
    \E n \in BagToSet(inflight), ok \in BOOLEAN :
        LET agg == Aggregate(serverDoc, n)
        IN  /\ inflight' = inflight (-) SetToBag({n})
            /\ IF ~ok
               THEN /\ error' = <<"HTTP error! status">>
                    /\ UNCHANGED <<data, currentIndex, locals>>
               ELSE IF agg.threw
               THEN /\ error' = <<agg.message>>
                    /\ locals' = <<agg>>
                    /\ UNCHANGED <<data, currentIndex>>
               ELSE /\ data' = <<[chartData |-> agg.chartData,
                                 uniqueUCs |-> agg.topUCs]>>
                    /\ currentIndex' = Len(agg.chartData) - 1
                    /\ locals' = <<agg>>
                    /\ UNCHANGED error
            /\ UNCHANGED <<serverDoc, today, tz, topN, isPlaying, selectedUCs,
                           clicks, args, result>>

\* onChange of the select: setTopN; the data effect ([topN]) starts a fetch.
SetTopN ==
    \E n \in TopNOptions \ {topN} :
        /\ Rendered
        /\ clicks < MaxClicks
        /\ topN' = n
        /\ inflight' = inflight (+) SetToBag({n})
        /\ clicks' = clicks + 1
        /\ UNCHANGED <<serverDoc, today, tz, data, error, isPlaying,
                       currentIndex, selectedUCs, locals, args, result>>

\* onClick of a series button: one button per entry of data.uniqueUCs.
toggleUCSelection ==
    /\ Rendered
    /\ clicks < MaxClicks
    /\ \E uc \in Range(data[1].uniqueUCs) :
        /\ selectedUCs' =
             IF \E i \in 1..Len(selectedUCs) : selectedUCs[i] = uc
             THEN SelectSeq(selectedUCs, LAMBDA name : name # uc)
             ELSE Append(selectedUCs, uc)
        /\ clicks' = clicks + 1
        /\ UNCHANGED <<serverDoc, today, tz, data, error, topN, isPlaying,
                       currentIndex, inflight, locals, args, result>>

\* const displayedUCs = selectedUCs.length ? selectedUCs : data?.uniqueUCs || []
displayedUCs ==
    IF Len(selectedUCs) # 0 THEN selectedUCs
    ELSE IF data # <<>> THEN data[1].uniqueUCs ELSE <<>>

resetAnimation ==
    /\ Rendered
    /\ clicks < MaxClicks
    /\ isPlaying' = FALSE
    /\ currentIndex' = 0
    /\ clicks' = clicks + 1
    /\ UNCHANGED <<serverDoc, today, tz, data, error, topN, selectedUCs,
                   inflight, locals, args, result>>

togglePlay ==
    /\ Rendered
    /\ clicks < MaxClicks
    /\ IF isPlaying
       THEN /\ isPlaying' = FALSE
            /\ UNCHANGED currentIndex
       ELSE /\ currentIndex' =
                 IF currentIndex >= Len(data[1].chartData) - 1
                 THEN 0 ELSE currentIndex
            /\ isPlaying' = TRUE
    /\ clicks' = clicks + 1
    /\ UNCHANGED <<serverDoc, today, tz, data, error, topN, selectedUCs,
                   inflight, locals, args, result>>

\* An interval that never stops at the last row.
Tick_noStop ==
    /\ isPlaying
    /\ data # <<>>
    /\ currentIndex' = currentIndex + 1
    /\ UNCHANGED <<serverDoc, today, tz, data, error, topN, isPlaying,
                   selectedUCs, inflight, clicks, locals, args, result>>

\* The interval of the animation effect exists while isPlaying && data, over
\* the data of the render that set it (the effect depends on data).
Tick ==
    /\ isPlaying
    /\ data # <<>>
    /\ IF currentIndex >= Len(data[1].chartData) - 1
       THEN /\ isPlaying' = FALSE
            /\ currentIndex' = Len(data[1].chartData) - 1
       ELSE /\ currentIndex' = currentIndex + 1
            /\ UNCHANGED isPlaying
    /\ UNCHANGED <<serverDoc, today, tz, data, error, topN, selectedUCs,
                   inflight, clicks, locals, args, result>>

---------------------------------------------------------------------------
(* Inputs *)

SeqsUpTo(S, n) == UNION {[1..k -> S] : k \in 0..n}

\* Raw dates, "M/D/YYYY": two spellings of 2024-07-01, one of 2024-07-02,
\* and four malformed ones (two pieces, four pieces, a piece that is not a
\* number, one piece).
D_7_1 == <<"7", "/", "1", "/", "2", "0", "2", "4">>
D_07_01 == <<"0", "7", "/", "0", "1", "/", "2", "0", "2", "4">>
D_7_2 == <<"7", "/", "2", "/", "2", "0", "2", "4">>
D_TwoPieces == <<"7", "/", "1">>
D_FourPieces == <<"7", "/", "1", "/", "2", "0", "2", "4", "/", "9">>
D_NotNumeric == <<"J", "u", "l", "/", "1", "/", "2", "0", "2", "4">>
D_OnePiece == <<"2", "0", "2", "4", "-", "0", "7", "-", "0", "1">>

WellFormedDates == {D_7_1, D_07_01, D_7_2}
MalformedDates == {D_TwoPieces, D_FourPieces, D_NotNumeric, D_OnePiece}

N_A == <<"A">>
N_B == <<"B">>
N_C == <<"C">>

DataItems(names, dates, values) ==
    [name : names, confirmation_date : dates, value : values]

\* The date `days` days after StartDate, as new Date().toISOString() gives it.
DayAfterStart(days) == ISODate(NewDate(StartDate) + days * HoursPerDay)

Idle ==
    /\ serverDoc = <<>> /\ today = StartDate /\ tz = ZoneUTC
    /\ data = <<>> /\ error = <<>> /\ topN = InitialTopN
    /\ isPlaying = FALSE /\ currentIndex = 0 /\ selectedUCs = <<>>
    /\ inflight = EmptyBag /\ clicks = 0 /\ locals = <<>>

---------------------------------------------------------------------------
(* Spec: the component, with /data.json holding MaxSeries series (or none) *)

MaxSeries == 6

\* The axis of Spec: StartDate and UISpan more days.
UISpan == 2

\* One record per series U1, U2, ..., the earlier the larger.
SeriesDoc(k) ==
    [i \in 1..k |-> [name |-> <<"U">> \o DigitsOf(i), confirmation_date |-> D_7_1,
                     value |-> k + 1 - i]]

Init ==
    /\ serverDoc \in {SeriesDoc(0), SeriesDoc(MaxSeries)}
    /\ today = DayAfterStart(UISpan)
    /\ tz = ZoneKarachi
    /\ Mounted(InitialTopN)
    /\ args = <<>> /\ result = <<>>

Next ==
    \/ FetchResolved
    \/ toggleUCSelection
    \/ SetTopN
    \/ resetAnimation
    \/ togglePlay
    \/ Tick

Spec == Init /\ [][Next]_vars

\* The interval fires for as long as it exists.
FairSpec == Spec /\ WF_vars(Tick)

---------------------------------------------------------------------------
(* SpecAgg: one run of the .then callback, over every document of at most  *)
(* MaxRecords records with a well-formed or a malformed date               *)

MaxRecords == 2

\* The topN of the closure: the initial one of the component or, the
\* aggregation being defined for every number, a small or a negative one.
SmallTopNs == {1, 2, 3}
NonPositiveTopNs == {-1, 0}

\* The axis runs from StartDate to StartDate + AxisSpan: WindowLag + 2 rows.
AxisSpan == 14

AggItems == DataItems({N_A, S_date}, WellFormedDates \cup MalformedDates, {1, 2})

InitAgg ==
    /\ serverDoc \in SeqsUpTo(AggItems, MaxRecords)
    /\ today = DayAfterStart(AxisSpan)
    /\ tz = ZoneKarachi
    /\ \/ Mounted(InitialTopN)
       \/ \E n \in SmallTopNs : Mounted(n)
    /\ args = <<>> /\ result = <<>>

NextAgg == FetchResolved

SpecAgg == InitAgg /\ [][NextAgg]_vars

---------------------------------------------------------------------------
(* SpecRank: the same callback over three series with well-formed dates    *)

MaxRankRecords == 3

\* The axis of SpecRank and SpecLookup: StartDate and ShortSpan more days.
ShortSpan == 1

\* A series totals 2 by one record of 2 or by two records of 1.
RankItems ==
    DataItems({N_A, N_B, N_C}, {D_7_1}, {1, 2})
        \cup DataItems({N_A, N_B, N_C}, {D_7_2}, {1})

InitRank ==
    /\ serverDoc \in SeqsUpTo(RankItems, MaxRankRecords)
    /\ today = DayAfterStart(ShortSpan)
    /\ tz = ZoneKarachi
    /\ \/ Mounted(InitialTopN)
       \/ \E n \in SmallTopNs \cup NonPositiveTopNs : Mounted(n)
    /\ args = <<>> /\ result = <<>>

SpecRank == InitRank /\ [][NextAgg]_vars

---------------------------------------------------------------------------
(* SpecLookup: the same callback over records that collide on their key    *)

MaxLookupRecords == 3

LookupItems ==
    DataItems({N_A, N_B}, {D_7_1, D_07_01, D_7_2}, {1, 2})

InitLookup ==
    /\ serverDoc \in SeqsUpTo(LookupItems, MaxLookupRecords)
    /\ today = DayAfterStart(ShortSpan)
    /\ tz = ZoneKarachi
    /\ Mounted(InitialTopN)
    /\ args = <<>> /\ result = <<>>

SpecLookup == InitLookup /\ [][NextAgg]_vars

---------------------------------------------------------------------------
(* SpecSMA: calculateSimpleMovingAverage on every sequence of 0s and 1s of *)
(* at most MaxLen values                                                   *)

MaxLen == 15

InitSMA ==
    /\ Idle
    /\ args \in SeqsUpTo({Num(0, 1), Num(1, 1)}, MaxLen)
    /\ result = <<>>

CallSMA ==
    /\ result = <<>>
    /\ result' = <<calculateSimpleMovingAverage(args)>>
    /\ UNCHANGED <<serverDoc, today, tz, data, error, topN, isPlaying,
                   currentIndex, selectedUCs, inflight, clicks, locals, args>>

SpecSMA == InitSMA /\ [][CallSMA]_vars

---------------------------------------------------------------------------
(* SpecDates: generateDateRange(start, end) for start and end within       *)
(* Radius days of a month's end, a leap day, a year's end and a clock      *)
(* change, in each time zone                                               *)

Radius == 3

Anchors ==
    {MakeDay(2024, 2, 29), MakeDay(2024, 7, 1), MakeDay(2024, 10, 6),
     MakeDay(2024, 11, 3), MakeDay(2024, 12, 31), MakeDay(2025, 3, 9)}

Zones == {ZoneUTC, ZoneKarachi, ZoneNewYork, ZoneSydney}

InitDates ==
    /\ serverDoc = <<>> /\ today = StartDate
    /\ data = <<>> /\ error = <<>> /\ topN = InitialTopN
    /\ isPlaying = FALSE /\ currentIndex = 0 /\ selectedUCs = <<>>
    /\ inflight = EmptyBag /\ clicks = 0 /\ locals = <<>>
    /\ tz \in Zones
    /\ \E a \in Anchors :
         \E s \in (a - Radius)..(a + Radius), e \in (a - Radius)..(a + Radius) :
            args = [startDate |-> ISODate(s * HoursPerDay),
                    endDate |-> ISODate(e * HoursPerDay)]
    /\ result = <<>>

CallGenerateDateRange ==
    /\ result = <<>>
    /\ result' = <<generateDateRange(args.startDate, args.endDate)>>
    /\ UNCHANGED <<serverDoc, today, tz, data, error, topN, isPlaying,
                   currentIndex, selectedUCs, inflight, clicks, locals, args>>

SpecDates == InitDates /\ [][CallGenerateDateRange]_vars

---------------------------------------------------------------------------
(* Claims about the pure functions *)

RECURSIVE SumOfInts(_, _, _)
SumOfInts(xs, lo, hi) ==
    IF lo > hi THEN 0 ELSE xs[lo].n + SumOfInts(xs, lo + 1, hi)

\* C1: calculateSimpleMovingAverage returns a sequence as long as its input;
\* output[i] is input[i] for i < 13 and, for i >= 13, the mean of the 14 raw
\* inputs input[i-13..i]; output[i] is the same when the inputs after i are
\* cut off.  (Positions are 0-based in the claim, 1-based here: k = i + 1.)
C1_MovingAverage ==
    result # <<>> =>
        LET out == result[1]
        IN  /\ Len(out) = Len(args)
            /\ \A k \in 1..Len(args) :
                 /\ k - 1 < 13 => out[k] = args[k]
                 /\ k - 1 >= 13 =>
                      /\ out[k].d > 0
                      /\ out[k].n * 14 = SumOfInts(args, k - 13, k) * out[k].d
                 /\ calculateSimpleMovingAverage(SubSeq(args, 1, k))[k] = out[k]

\* C1's case: an input long enough for two averaged positions, whose
\* average at index 13 differs from the raw value there.
C1_Witness ==
    /\ result # <<>>
    /\ Len(args) = 15
    /\ result[1][14] # args[14]
    /\ result[1][15] # result[1][14]

\* The day number of a date-only ISO string.
DayNumber(s) == Day(NewDate(s))

\* C5: generateDateRange(start, end) is, for start <= end, the dates start,
\* start + 1 day, ..., end (so (end - start) + 1 of them, [start] when they
\* are equal), and the empty sequence for start > end.
C5_DateRange ==
    result # <<>> =>
        LET s == DayNumber(args.startDate)
            e == DayNumber(args.endDate)
            r == result[1]
        IN  IF s <= e
            THEN /\ Len(r) = (e - s) + 1
                 /\ \A i \in 1..Len(r) : r[i] = ISODate((s + i - 1) * HoursPerDay)
            ELSE r = <<>>

---------------------------------------------------------------------------
(* Claims about the aggregation *)

\* What the claims call a record's normalized date: year, month and day read
\* as numbers and written YYYY-MM-DD (for a date of three numeric pieces).
Canonical(raw) ==
    LET p == Split(raw, "/")
    IN  ToDigits(ParseNat(p[3]), 4) \o S_dash \o ToDigits(ParseNat(p[1]), 2)
            \o S_dash \o ToDigits(ParseNat(p[2]), 2)

IsMalformed(raw) ==
    LET p == Split(raw, "/")
    IN  Len(p) # 3 \/ \E k \in 1..Len(p) : ~IsNumeric(p[k])

NamesOf(doc) == {doc[i].name : i \in 1..Len(doc)}

\* The records of a series on a date, and the value of the latest of them.
RecordsOf(doc, name, date) ==
    {i \in 1..Len(doc) :
        doc[i].name = name /\ Canonical(doc[i].confirmation_date) = date}

Latest(I) == CHOOSE i \in I : \A j \in I : j <= i

ValueOn(doc, name, date) ==
    IF RecordsOf(doc, name, date) = {} THEN 0
    ELSE doc[Latest(RecordsOf(doc, name, date))].value

RECURSIVE TotalOver(_, _, _, _)
TotalOver(doc, name, axis, i) ==
    IF i > Len(axis) THEN 0
    ELSE ValueOn(doc, name, axis[i]) + TotalOver(doc, name, axis, i + 1)

Discovery(doc, name) == CHOOSE i \in 1..Len(doc) :
    doc[i].name = name /\ \A j \in 1..(i - 1) : doc[j].name # name

\* a ranks before b: a larger total, or the same total and discovered first.
RanksBefore(doc, axis, a, b) ==
    \/ TotalOver(doc, a, axis, 1) > TotalOver(doc, b, axis, 1)
    \/ /\ TotalOver(doc, a, axis, 1) = TotalOver(doc, b, axis, 1)
       /\ Discovery(doc, a) < Discovery(doc, b)

Min(a, b) == IF a < b THEN a ELSE b
Max(a, b) == IF a > b THEN a ELSE b

\* The callback ran to its end and published.
Published == locals # <<>> /\ ~locals[1].threw /\ data # <<>>

\* C2: for a positive topN the published uniqueUCs is the first
\* min(topN, number of series) series in the order of total over the axis
\* descending, a tie keeping the order of discovery.
C2_Ranking ==
    (Published /\ locals[1].topN > 0) =>
        LET r == data[1].uniqueUCs
            axis == locals[1].dateRange
            names == NamesOf(serverDoc)
        IN  /\ Len(r) = Min(locals[1].topN, Cardinality(names))
            /\ \A i \in 1..Len(r) : r[i] \in names
            /\ \A i \in 1..Len(r) : \A j \in (i + 1)..Len(r) :
                 RanksBefore(serverDoc, axis, r[i], r[j])
            /\ \A i \in 1..Len(r) : \A x \in names \ Range(r) :
                 RanksBefore(serverDoc, axis, r[i], x)

\* C2's case: totals A:2, B:2, C:1 discovered as A, B, C, with topN = 2.
C2_Witness ==
    /\ Published
    /\ serverDoc = <<[name |-> N_A, confirmation_date |-> D_7_1, value |-> 2],
                     [name |-> N_B, confirmation_date |-> D_7_1, value |-> 2],
                     [name |-> N_C, confirmation_date |-> D_7_1, value |-> 1]>>
    /\ locals[1].topN = 2
    /\ data[1].uniqueUCs = <<N_A, N_B>>

\* C3: the lookup holds, for every (series, normalized date) of the records,
\* the value of the latest record of that pair, and one entry per pair.
C3_LastWriteWins ==
    (locals # <<>> /\ ~locals[1].threw) =>
        LET m == locals[1].dataLookup
            pairs == {<<serverDoc[i].name, Canonical(serverDoc[i].confirmation_date)>> :
                        i \in 1..Len(serverDoc)}
        IN  /\ \A p \in pairs :
                 /\ Key(p[1], p[2]) \in DOMAIN m
                 /\ m[Key(p[1], p[2])].d = 1
                 /\ m[Key(p[1], p[2])].n = ValueOn(serverDoc, p[1], p[2])
            /\ Cardinality(DOMAIN m) = Cardinality(pairs)

\* C3's case: two records of one series on one date, spelled differently and
\* of different values, and a record of another pair between them.
C3_Witness ==
    /\ locals # <<>> /\ ~locals[1].threw
    /\ Len(serverDoc) = 3
    /\ serverDoc[1].name = serverDoc[3].name
    /\ serverDoc[1].confirmation_date = D_7_1
    /\ serverDoc[3].confirmation_date = D_07_01
    /\ serverDoc[1].value # serverDoc[3].value
    /\ serverDoc[2].name # serverDoc[1].name
    /\ Cardinality(DOMAIN locals[1].dataLookup) = 2

IsNumber(v) == DOMAIN v = {"n", "d"}

\* C4: chartData has one row per axis date, in axis order, whose date field
\* is that date and whose other keys are exactly the ranked series, each a
\* number; before smoothing a (series, date) without a record holds 0.
\* (Stated of the documents whose dates are all well-formed.)
C4_DenseMatrix ==
    (Published
        /\ \A i \in 1..Len(serverDoc) : ~IsMalformed(serverDoc[i].confirmation_date)) =>
        LET axis == locals[1].dateRange
            ranked == locals[1].topUCs
            raw == locals[1].formattedData
            rows == locals[1].chartData
        IN  /\ Len(rows) = Len(axis)
            /\ Len(raw) = Len(axis)
            /\ \A r \in 1..Len(axis) :
                 /\ rows[r][S_date] = Str(axis[r])
                 /\ DOMAIN rows[r] = {S_date} \cup Range(ranked)
                 /\ \A uc \in Range(ranked) \ {S_date} :
                      /\ IsNumber(rows[r][uc])
                      /\ uc \in DOMAIN raw[r]
                      /\ (\A i \in 1..Len(serverDoc) :
                             serverDoc[i].name = uc =>
                                 formatDate(serverDoc[i].confirmation_date).value # axis[r])
                           => raw[r][uc] = Zero

\* C6: a malformed raw date in any record ends the callback in the error
\* outcome, with no data published.
C6_MalformedDateAborts ==
    (locals # <<>>
        /\ \E i \in 1..Len(serverDoc) : IsMalformed(serverDoc[i].confirmation_date)) =>
        /\ locals[1].threw
        /\ error # <<>>
        /\ data = <<>>

---------------------------------------------------------------------------
(* Claims about the component *)

\* C8: once every fetch has settled (none of them failing), the published
\* data is the aggregation for the current topN.
C8_DataMatchesTopN ==
    (inflight = EmptyBag /\ Rendered) =>
        /\ data[1].uniqueUCs = Aggregate(serverDoc, topN).topUCs
        /\ data[1].chartData = Aggregate(serverDoc, topN).chartData

\* C9: once the reloads have settled, every series drawn is one of the
\* current data.uniqueUCs.
C9_DisplayedAreRanked ==
    (inflight = EmptyBag /\ Rendered) =>
        Range(displayedUCs) \subseteq Range(data[1].uniqueUCs)

LastIndex == Len(data[1].chartData) - 1

\* C10: with data loaded currentIndex is within 0..chartData.length - 1; a
\* step that is no user action and no reload leaves currentIndex alone when
\* not playing and otherwise moves it by at most one row forward; and once
\* playing with no user action left, the index reaches the last row,
\* isPlaying becomes false, and the two stay so.
C10_Playback ==
    /\ [](data # <<>> => currentIndex \in 0..LastIndex)
    /\ [][(clicks' = clicks /\ inflight' = inflight) =>
            /\ ~isPlaying => currentIndex' = currentIndex
            /\ isPlaying =>
                 \/ currentIndex' = currentIndex + 1
                 \/ /\ data # <<>>
                    /\ currentIndex = LastIndex
                    /\ currentIndex' = currentIndex
                    /\ ~isPlaying']_vars
    /\ (isPlaying /\ clicks = MaxClicks) ~>
            [](~isPlaying /\ data # <<>> /\ currentIndex = LastIndex)

\* C10's case: the one user action was togglePlay at the last row, and the
\* playback has run from row 0 to the last row and stopped.
C10_Witness ==
    /\ clicks = 1
    /\ Rendered
    /\ topN = InitialTopN
    /\ selectedUCs = <<>>
    /\ inflight = EmptyBag
    /\ ~isPlaying
    /\ LastIndex = UISpan
    /\ currentIndex = LastIndex

====
